---- MODULE Spec2Model ----
(***************************************************************************)
(* Key rotation, model-name resolution and the retrying dispatcher of      *)
(* dashboard.py (lines 42-136), as a state machine of one Streamlit        *)
(* session.                                                                *)
(*                                                                         *)
(* Text is modelled as a sequence of one-character strings, so that the    *)
(* code's substring tests ('x' in m) and m.replace("models/", "") are      *)
(* computed, not assumed.                                                  *)
(***************************************************************************)
EXTENDS Integers, Sequences, FiniteSets, TLC

VARIABLES
    poolSize,       \* len(GEMINI_API_KEYS), fixed for the session
    session_state,  \* st.session_state: the keys "key_index" and "model_name"
    genai_key,      \* the credential genai.configure() installed last
    model,          \* the module-global GenerativeModel handle
    listing,        \* what list_models() answered to the session's probe
    probe_count,    \* how often resolve_model_name() has run in the session
    pc,             \* "idle" (no script run yet), "ready", "loop" (in ask_orbit)
    attempt,        \* ask_orbit's loop variable
    start_index,    \* key_index when the current/last ask_orbit started
    end_index,      \* key_index when the last ask_orbit returned
    trace,          \* backend calls and rotations of the current/last ask_orbit
    result,         \* what the last ask_orbit returned
    last_rotate,    \* the most recent rotate_key() call, before and after
    rot_run         \* the current run of consecutive direct rotate_key() calls

vars == <<poolSize, session_state, genai_key, model, listing, probe_count, pc,
          attempt, start_index, end_index, trace, result, last_rotate, rot_run>>

----------------------------------------------------------------------------
(* Bounds of the model *)

\* largest credential pool explored
MaxPool == 3
\* longest backend catalog explored by the resolution specification
MaxCatalog == 3

----------------------------------------------------------------------------
(* Text *)

s_models == <<"m", "o", "d", "e", "l", "s", "/">>
s_gemini15flash ==
    <<"g", "e", "m", "i", "n", "i", "-", "1", ".", "5", "-", "f", "l", "a", "s", "h">>
s_gemini2 == <<"g", "e", "m", "i", "n", "i", "-", "2">>
s_flash == <<"f", "l", "a", "s", "h">>
s_latest == <<"l", "a", "t", "e", "s", "t">>
s_exp == <<"e", "x", "p">>
s_pro == <<"p", "r", "o">>
s_dash == <<"-">>
s_tuned == <<"t", "u", "n", "e", "d", "M", "o", "d", "e", "l", "s", "/">>

\* Python's  sub in s  for strings
Contains(s, sub) ==
    \E i \in 1..(Len(s) - Len(sub) + 1) : SubSeq(s, i, i + Len(sub) - 1) = sub

StartsWith(s, sub) == Len(s) >= Len(sub) /\ SubSeq(s, 1, Len(sub)) = sub

\* Python's  s.replace(old, "") : every non-overlapping occurrence, left to right
RECURSIVE Remove(_, _)
Remove(s, old) ==
    IF Len(s) < Len(old) THEN s
    ELSE IF StartsWith(s, old)
         THEN Remove(SubSeq(s, Len(old) + 1, Len(s)), old)
         ELSE <<Head(s)>> \o Remove(Tail(s), old)

----------------------------------------------------------------------------
(* The credential pool *)

\* GEMINI_API_KEYS: n opaque credentials, pairwise distinct, indexed from 0
GEMINI_API_KEYS(n) == [i \in 0..(n - 1) |-> <<"key", i>>]

NoKey == <<"unconfigured">>
NoClient == <<"no client">>

\* configure_genai() with the session's index ignored: always the first key
configure_genai_first(n, ss) == GEMINI_API_KEYS(n)[0]

\* configure_genai(): the credential it installs
configure_genai(n, ss) ==
    LET idx == ss.key_index % n
    IN  GEMINI_API_KEYS(n)[idx]

\* genai.GenerativeModel(name): a handle whose client is created on first use
GenerativeModel(name) == [name |-> name, client |-> NoClient]

----------------------------------------------------------------------------
(* Model-name resolution *)

Fallback == s_gemini15flash

\* priority 1 without the exclusion of "latest"
IsPriority1_allow_latest(m) ==
    Contains(m, s_gemini15flash) /\ ~Contains(m, s_exp)

IsPriority1(m) ==
    Contains(m, s_gemini15flash) /\ ~Contains(m, s_latest) /\ ~Contains(m, s_exp)

IsPriority2(m) ==
    Contains(m, s_flash) /\ ~Contains(m, s_gemini2) /\ ~Contains(m, s_exp)

\* 'generateContent' in m.supported_generation_methods  (list membership)
IsCapable(entry) == "generateContent" \in entry.supported_generation_methods

\* resolve_model_name(): lst is the outcome of genai.list_models()
resolve_model_name(lst) ==
    IF ~lst.ok THEN Fallback
    ELSE
        LET capable == SelectSeq(lst.models, IsCapable)
            valid_models == [i \in 1..Len(capable) |-> capable[i].name]
            p1 == SelectSeq(valid_models, IsPriority1)
            p2 == SelectSeq(valid_models, IsPriority2)
        IN  IF p1 # <<>> THEN Remove(Head(p1), s_models)
            ELSE IF p2 # <<>> THEN Remove(Head(p2), s_models)
            ELSE IF valid_models # <<>> THEN Remove(valid_models[1], s_models)
            ELSE Fallback

----------------------------------------------------------------------------
(* Rotation *)

\* rotate_key() stopping at the last key instead of wrapping around
rotate_key_saturating(n, ss, gk, mdl) ==
    IF n <= 1
    THEN [ok |-> FALSE, session_state |-> ss, genai_key |-> gk, model |-> mdl]
    ELSE LET nxt == IF ss.key_index + 1 < n THEN ss.key_index + 1 ELSE ss.key_index
             ss2 == [ss EXCEPT !.key_index = nxt]
         IN  [ok |-> TRUE,
              session_state |-> ss2,
              genai_key |-> configure_genai(n, ss2),
              model |-> GenerativeModel(ss2.model_name)]

\* rotate_key() re-instantiating the handle before it looks at the pool size
rotate_key_rebuild_first(n, ss, gk, mdl) ==
    IF n <= 1
    THEN [ok |-> FALSE, session_state |-> ss, genai_key |-> gk,
          model |-> GenerativeModel(ss.model_name)]
    ELSE LET ss2 == [ss EXCEPT !.key_index = (ss.key_index + 1) % n]
         IN  [ok |-> TRUE,
              session_state |-> ss2,
              genai_key |-> configure_genai(n, ss2),
              model |-> GenerativeModel(ss2.model_name)]

\* rotate_key() with  len(GEMINI_API_KEYS) < 1  for its guard
rotate_key_lt(n, ss, gk, mdl) ==
    IF n < 1
    THEN [ok |-> FALSE, session_state |-> ss, genai_key |-> gk, model |-> mdl]
    ELSE LET ss2 == [ss EXCEPT !.key_index = (ss.key_index + 1) % n]
         IN  [ok |-> TRUE,
              session_state |-> ss2,
              genai_key |-> configure_genai(n, ss2),
              model |-> GenerativeModel(ss2.model_name)]

\* rotate_key() without line 101: the old handle, and its client, stay
rotate_key_stale_model(n, ss, gk, mdl) ==
    IF n <= 1
    THEN [ok |-> FALSE, session_state |-> ss, genai_key |-> gk, model |-> mdl]
    ELSE LET ss2 == [ss EXCEPT !.key_index = (ss.key_index + 1) % n]
         IN  [ok |-> TRUE,
              session_state |-> ss2,
              genai_key |-> configure_genai(n, ss2),
              model |-> mdl]

\* rotate_key(): the state it leaves, and the boolean it returns (ok)
rotate_key(n, ss, gk, mdl) ==
    IF n <= 1
    THEN [ok |-> FALSE, session_state |-> ss, genai_key |-> gk, model |-> mdl]
    ELSE LET ss2 == [ss EXCEPT !.key_index = (ss.key_index + 1) % n]
         IN  [ok |-> TRUE,
              session_state |-> ss2,
              genai_key |-> configure_genai(n, ss2),
              model |-> GenerativeModel(ss2.model_name)]

\* what last_rotate records of one rotate_key() call
RotateRecord(ss, mdl, r) ==
    [called |-> TRUE, ok |-> r.ok,
     index_before |-> ss.key_index, index_after |-> r.session_state.key_index,
     model_before |-> mdl, model_after |-> r.model]

----------------------------------------------------------------------------
(* The backend *)

\* str.lower() on the fragments an error message is made of
LowerWord(w) ==
    CASE w = "Quota" -> "quota"
      [] w = "Leaked" -> "leaked"
      [] w = "API key" -> "api key"
      [] w = "ResourceExhausted" -> "resourceexhausted"
      [] OTHER -> w

Lower(msg) == [i \in 1..Len(msg) |-> LowerWord(msg[i])]

\* frag in err_msg
InMsg(frag, msg) == \E i \in 1..Len(msg) : msg[i] = frag

\* str(e) of the exceptions generate_content() is let to raise
ErrorMessages ==
    { <<"429", "Quota", "exceeded">>,
      <<"ResourceExhausted">>,
      <<"403", "Forbidden">>,
      <<"API key", "Leaked">>,
      <<"500", "Internal">>,
      <<"api key", "timeout">> }

is_quota(err_msg) ==
    InMsg("429", err_msg) \/ InMsg("quota", Lower(err_msg))
        \/ InMsg("ResourceExhausted", err_msg)

is_auth(err_msg) ==
    InMsg("403", err_msg) \/ InMsg("leaked", Lower(err_msg))
        \/ InMsg("API key", err_msg)

\* the class of a failure, as ask_orbit tells them apart
ErrorClass(err_msg) ==
    IF is_quota(err_msg) THEN "Quota"
    ELSE IF is_auth(err_msg) THEN "Auth"
    ELSE "Transient"

\* what one generate_content() call can do
BackendOutcomes ==
    {[ok |-> TRUE, err_msg |-> <<>>]} \cup
    {[ok |-> FALSE, err_msg |-> m] : m \in ErrorMessages}

\* model.generate_content(): the handle creates its client on first use, from
\* the credential genai.configure() installed last, and keeps it
BoundModel(mdl, gk) ==
    IF mdl.client = NoClient THEN [mdl EXCEPT !.client = gk] ELSE mdl

----------------------------------------------------------------------------
(* The dispatcher *)

\* the budget without the extra attempt
max_retries_no_extra(n) == n

\* the budget with two extra attempts
max_retries_two_extra(n) == n + 2

\* line 109
max_retries(n) == n + 1

GenerateEvent(ss, mdl, outcome) ==
    [ev |-> "generate", key |-> mdl.client, index |-> ss.key_index,
     outcome |-> outcome]

RotateEvent(r) ==
    [ev |-> "rotate", key |-> r.genai_key, index |-> r.session_state.key_index,
     outcome |-> IF r.ok THEN "rotated" ELSE "failed"]

\* every failure makes ask_orbit rotate
should_rotate_always(err_msg) == TRUE

\* line 119: the failures that make ask_orbit rotate
should_rotate(err_msg) == is_quota(err_msg) \/ is_auth(err_msg)

\* line 131: a failure of another class is retried while attempts remain
may_retry(n, att) == att < max_retries(n) - 1

\* One iteration of ask_orbit's loop, with the backend answering `out`:
\* next is "return" or "continue", value what is returned.
ask_orbit_step(n, ss, gk, mdl, att, callno, out) ==
    LET m1 == BoundModel(mdl, gk)
        same == [session_state |-> ss, genai_key |-> gk, model |-> m1]
    IN  IF out.ok
        THEN same @@ [next |-> "return",
                      value |-> [kind |-> "response", call |-> callno],
                      events |-> <<GenerateEvent(ss, m1, "ok")>>]
        ELSE
            LET cls == ErrorClass(out.err_msg)
                gen == GenerateEvent(ss, m1, cls)
            IN  IF should_rotate(out.err_msg)
                THEN LET r == rotate_key(n, ss, gk, m1)
                     IN  [session_state |-> r.session_state,
                          genai_key |-> r.genai_key,
                          model |-> r.model,
                          next |-> IF r.ok THEN "continue" ELSE "return",
                          value |-> [kind |-> "None", call |-> 0],
                          events |-> <<gen, RotateEvent(r)>>,
                          rotate |-> RotateRecord(ss, m1, r)]
                ELSE same @@ [next |-> IF may_retry(n, att)
                                       THEN "continue" ELSE "return",
                              value |-> [kind |-> "None", call |-> 0],
                              events |-> <<gen>>]

----------------------------------------------------------------------------
(* The session *)

NoListing == [ok |-> FALSE, models |-> <<>>, asked |-> FALSE]
NoResult == [kind |-> "none", call |-> 0]
NoRotate ==
    [called |-> FALSE, ok |-> FALSE, index_before |-> 0, index_after |-> 0,
     model_before |-> NoClient, model_after |-> NoClient]
NoRun == [start |-> 0, calls |-> <<>>]

Entry(name, methods) == [name |-> name, supported_generation_methods |-> methods]

n_flash == s_models \o s_gemini15flash
n_flash_latest == s_models \o s_gemini15flash \o s_dash \o s_latest
n_flash_exp == s_models \o s_gemini15flash \o s_dash \o s_exp
n_2_flash == s_models \o s_gemini2 \o s_dash \o s_flash
n_2_flash_exp == s_models \o s_gemini2 \o s_dash \o s_flash \o s_dash \o s_exp
n_pro == s_models \o <<"g", "e", "m", "i", "n", "i", "-">> \o s_pro
n_flash_lite == s_models \o s_flash \o s_dash \o <<"l", "i", "t", "e">>
n_tuned == s_tuned \o s_flash \o s_dash \o <<"x">>

\* the names a backend catalog is made of
ModelNames ==
    {n_flash, n_flash_latest, n_flash_exp, n_2_flash, n_2_flash_exp, n_pro,
     n_flash_lite, n_tuned}

MethodSets == {{"generateContent", "countTokens"}, {"embedContent"}}

CatalogEntries == {Entry(nm, ms) : nm \in ModelNames, ms \in MethodSets}

RECURSIVE SeqsUpTo(_, _)
SeqsUpTo(S, k) ==
    IF k = 0 THEN {<<>>}
    ELSE LET shorter == SeqsUpTo(S, k - 1)
         IN  shorter \cup {Append(q, e) : q \in shorter, e \in S}

Listing(ok, models) == [ok |-> ok, models |-> models, asked |-> TRUE]

\* every answer of list_models() over catalogs of at most MaxCatalog entries
AllListings ==
    {Listing(FALSE, <<>>)} \cup {Listing(TRUE, c) : c \in SeqsUpTo(CatalogEntries, MaxCatalog)}

\* the answers the session specification draws from
SessionListings ==
    { Listing(FALSE, <<>>),
      Listing(TRUE, <<Entry(n_flash_latest, {"generateContent"}),
                     Entry(n_flash, {"generateContent"})>>),
      Listing(TRUE, <<Entry(n_pro, {"generateContent"})>>) }

Init ==
    /\ poolSize \in 1..MaxPool
    /\ session_state = <<>>
    /\ genai_key = NoKey
    /\ model = GenerativeModel(<<>>)
    /\ listing = NoListing
    /\ probe_count = 0
    /\ pc = "idle"
    /\ attempt = 0
    /\ start_index = 0
    /\ end_index = 0
    /\ trace = <<>>
    /\ result = NoResult
    /\ last_rotate = NoRotate
    /\ rot_run = NoRun

Has(ss, k) == k \in DOMAIN ss

\* st.session_state.k = v
Put(ss, k, v) == [x \in DOMAIN ss \cup {k} |-> IF x = k THEN v ELSE ss[x]]

\* the probe runs on every script run
needs_probe_always(ss) == TRUE

\* line 80: the probe runs when the session holds no model name yet
needs_probe(ss) == ~Has(ss, "model_name")

\* One run of the script, lines 42-86; the probe is answered from `answers`.
ScriptRunOver(answers) ==
    /\ pc \in {"idle", "ready"}
    /\ \E lst \in answers :
        LET ss1 == IF Has(session_state, "key_index") THEN session_state
                   ELSE Put(session_state, "key_index", 0)
            probing == needs_probe(ss1)
            ss2 == IF probing
                   THEN Put(ss1, "model_name", resolve_model_name(lst))
                   ELSE ss1
        IN  /\ session_state' = ss2
            /\ listing' = IF probing THEN lst ELSE listing
            /\ probe_count' = IF probing THEN probe_count + 1 ELSE probe_count
            /\ genai_key' = configure_genai(poolSize, ss2)
            /\ model' = GenerativeModel(ss2.model_name)
    /\ pc' = "ready"
    /\ rot_run' = NoRun
    /\ UNCHANGED <<poolSize, attempt, start_index, end_index, trace, result,
                   last_rotate>>

ScriptRun == ScriptRunOver(SessionListings)

\* ask_orbit(prompt) is entered: lines 106-111
AskOrbit ==
    /\ pc = "ready"
    /\ pc' = "loop"
    /\ attempt' = 0
    /\ start_index' = session_state.key_index
    /\ end_index' = session_state.key_index
    /\ trace' = <<>>
    /\ result' = NoResult
    /\ rot_run' = NoRun
    /\ UNCHANGED <<poolSize, session_state, genai_key, model, listing,
                   probe_count, last_rotate>>

\* One iteration of the loop, lines 111-135, and line 136 when it was the last
AskOrbitAttempt ==
    /\ pc = "loop"
    /\ \E out \in BackendOutcomes :
        LET callno == attempt + 1
            s == ask_orbit_step(poolSize, session_state, genai_key, model,
                                attempt, callno, out)
            exhausted == attempt + 1 >= max_retries(poolSize)
        IN  /\ session_state' = s.session_state
            /\ genai_key' = s.genai_key
            /\ model' = s.model
            /\ trace' = trace \o s.events
            /\ last_rotate' = IF Has(s, "rotate") THEN s.rotate ELSE last_rotate
            /\ IF s.next = "continue" /\ ~exhausted
               THEN /\ pc' = "loop"
                    /\ attempt' = attempt + 1
                    /\ result' = result
                    /\ end_index' = end_index
               ELSE /\ pc' = "ready"
                    /\ attempt' = attempt
                    /\ end_index' = s.session_state.key_index
                    /\ result' = IF s.next = "return" THEN s.value
                                 ELSE [kind |-> "None", call |-> 0]
    /\ UNCHANGED <<poolSize, listing, probe_count, start_index, rot_run>>

\* rotate_key() called on its own, outside ask_orbit
RotateKey ==
    /\ pc = "ready"
    /\ LET r == rotate_key(poolSize, session_state, genai_key, model)
           run == IF Len(rot_run.calls) >= poolSize
                  THEN [start |-> session_state.key_index, calls |-> <<>>]
                  ELSE IF rot_run.calls = <<>>
                       THEN [start |-> session_state.key_index, calls |-> <<>>]
                       ELSE rot_run
       IN  /\ session_state' = r.session_state
           /\ genai_key' = r.genai_key
           /\ model' = r.model
           /\ last_rotate' = RotateRecord(session_state, model, r)
           /\ rot_run' = [run EXCEPT !.calls =
                            Append(@, [ok |-> r.ok,
                                       index |-> r.session_state.key_index])]
    /\ UNCHANGED <<poolSize, listing, probe_count, pc, attempt, start_index,
                   end_index, trace, result>>

Next == ScriptRun \/ AskOrbit \/ AskOrbitAttempt \/ RotateKey

Spec == Init /\ [][Next]_vars

\* The resolution specification: the session's first script run, its probe
\* answered with every catalog; the pool is the smallest or the largest one
ResolveRun == pc = "idle" /\ ScriptRunOver(AllListings)

InitResolve == Init /\ poolSize \in {1, MaxPool}

SpecResolve == InitResolve /\ [][ResolveRun]_vars

----------------------------------------------------------------------------
(* Properties *)

\* the last ask_orbit has returned; trace, result and end_index are its own
Finished == pc = "ready" /\ result # NoResult

IsGenerate(e) == e.ev = "generate"
IsRotated(e) == e.ev = "rotate" /\ e.outcome = "rotated"

\* the backend calls of the current/last ask_orbit, in order
Calls == SelectSeq(trace, IsGenerate)

CallsAll(cls) == \A i \in 1..Len(Calls) : Calls[i].outcome = cls

KeysUsed == {Calls[i].key : i \in 1..Len(Calls)}

PoolKeys == {GEMINI_API_KEYS(poolSize)[i] : i \in 0..(poolSize - 1)}

KeyIndex == session_state.key_index

\* C1: with a pool of N >= 2 credentials, an ask_orbit whose every backend call
\* failed with a Quota error has made exactly N+1 calls, has used each of the N
\* credentials for at least one of them, and has returned None.
C1_QuotaExhaustion ==
    (poolSize >= 2 /\ Finished /\ CallsAll("Quota")) =>
        /\ Len(Calls) = poolSize + 1
        /\ KeysUsed = PoolKeys
        /\ result.kind = "None"

C1_Witness ==
    /\ poolSize = 3 /\ Finished /\ CallsAll("Quota")
    /\ start_index = 1 /\ Len(Calls) = 4 /\ result.kind = "None"

\* C2: with N >= 2, N consecutive rotate_key() calls from cursor c all return
\* True, the N cursor values they leave are pairwise distinct, and the last
\* one is c again.
C2_RotateCycle ==
    (poolSize >= 2 /\ Len(rot_run.calls) = poolSize) =>
        /\ \A i \in 1..poolSize : rot_run.calls[i].ok
        /\ rot_run.calls[poolSize].index = rot_run.start
        /\ KeyIndex = rot_run.start
        /\ \A i, j \in 1..poolSize :
              i # j => rot_run.calls[i].index # rot_run.calls[j].index

C2_Witness ==
    /\ poolSize = 3 /\ Len(rot_run.calls) = 3 /\ rot_run.start = 2
    /\ KeyIndex = 2

\* C3: with a single credential, every rotate_key() call, direct or inside
\* ask_orbit, returns False and leaves the cursor and the model handle as
\* they were.
C3_SingleKeyRotateFails ==
    (poolSize = 1 /\ last_rotate.called) =>
        /\ ~last_rotate.ok
        /\ last_rotate.index_after = last_rotate.index_before
        /\ last_rotate.model_after = last_rotate.model_before
        /\ KeyIndex = 0

C3_Witness ==
    /\ poolSize = 1 /\ last_rotate.called /\ Finished
    /\ rot_run.calls # <<>>
    /\ last_rotate.model_before.client # NoClient

C5_BoundedDispatch ==
    /\ Len(Calls) <= poolSize + 1
    /\ pc = "loop" => (attempt < poolSize + 1 /\ Len(Calls) = attempt)
    /\ Finished => result.kind \in {"response", "None"}
    /\ Finished => Len(Calls) >= 1
    /\ (Finished /\ result.kind = "response") =>
            /\ trace[Len(trace)] = Calls[Len(Calls)]
            /\ Calls[Len(Calls)].outcome = "ok"
            /\ result.call = Len(Calls)
    /\ (Finished /\ result.kind = "None") => Calls[Len(Calls)].outcome # "ok"

C5_Witness ==
    /\ poolSize = 3 /\ Finished /\ Len(Calls) = 4 /\ result.kind = "response"
    /\ Calls[1].outcome = "Quota" /\ Calls[2].outcome = "Transient"
    /\ Calls[3].outcome = "Auth"

\* C6: with a single credential, a Quota or Auth failure ends ask_orbit at
\* once: it is the last backend call, None is returned and the cursor is
\* unchanged, also when it was the first of the two attempts.
C6_SingleKeyTerminal ==
    (poolSize = 1 /\ \E i \in 1..Len(Calls) : Calls[i].outcome \in {"Quota", "Auth"}) =>
        /\ Finished
        /\ Calls[Len(Calls)].outcome \in {"Quota", "Auth"}
        /\ \A i \in 1..(Len(Calls) - 1) : Calls[i].outcome \notin {"Quota", "Auth"}
        /\ result.kind = "None"
        /\ end_index = start_index /\ KeyIndex = start_index

C6_Witness ==
    /\ poolSize = 1 /\ Finished /\ Len(Calls) = 1
    /\ Calls[1].outcome = "Auth" /\ result.kind = "None"

\* C7 as stated: in a finished ask_orbit every successful rotation is followed
\* by a backend call made with the credential rotated to.
C7_EveryRotationRetried ==
    Finished =>
        \A i \in 1..Len(trace) :
            IsRotated(trace[i]) =>
                /\ i < Len(trace)
                /\ trace[i + 1].ev = "generate"
                /\ trace[i + 1].key = trace[i].key

\* the number of backend calls among the first i events of the trace
CallsUpTo(i) == Len(SelectSeq(SubSeq(trace, 1, i), IsGenerate))

\* C7 amended: a successful rotation after a failure on any attempt but the
\* last (N+1-th) is followed by a backend call made with the credential
\* rotated to; after a successful rotation on the last attempt ask_orbit
\* returns None without another call.
C7_RotationRetriedWithinBudget ==
    \A i \in 1..Len(trace) :
        IsRotated(trace[i]) =>
            /\ trace[i].key = GEMINI_API_KEYS(poolSize)[trace[i].index]
            /\ IF CallsUpTo(i) < poolSize + 1
               THEN IF i < Len(trace)
                    THEN /\ trace[i + 1].ev = "generate"
                         /\ trace[i + 1].key = trace[i].key
                    ELSE pc = "loop"
               ELSE /\ i = Len(trace)
                    /\ Finished
                    /\ result.kind = "None"

C7_Witness ==
    /\ poolSize = 2 /\ Finished /\ Len(trace) = 6
    /\ IsRotated(trace[2]) /\ IsRotated(trace[4]) /\ IsRotated(trace[6])
    /\ trace[3].key = trace[2].key /\ result.kind = "None"

\* C8: the probe runs at most once in a session, and once the session holds a
\* model name no step changes it or probes again.
C8_ProbeOnce ==
    [][/\ probe_count' <= 1
       /\ Has(session_state, "model_name") =>
            /\ Has(session_state', "model_name")
            /\ session_state'.model_name = session_state.model_name
            /\ probe_count' = probe_count
            /\ listing' = listing]_vars

C8_Witness ==
    /\ probe_count = 1 /\ Has(session_state, "model_name")
    /\ last_rotate.called /\ last_rotate.ok /\ Finished
    /\ model.client = NoClient /\ rot_run = NoRun /\ KeyIndex = 2

\* the "models/" prefix removed
StripPrefix(m) ==
    IF StartsWith(m, s_models) THEN SubSeq(m, Len(s_models) + 1, Len(m)) ELSE m

\* the positions of the catalog's content-generation-capable models
CapableAt(c) == {i \in 1..Len(c) : "generateContent" \in c[i].supported_generation_methods}

Rule1(m) ==
    Contains(m, s_gemini15flash) /\ ~(Contains(m, s_latest) \/ Contains(m, s_exp))
Rule2(m) ==
    Contains(m, s_flash) /\ ~(Contains(m, s_gemini2) \/ Contains(m, s_exp))
Rule3(m) == TRUE

Least(S) == CHOOSE i \in S : \A j \in S : i <= j

\* what the claim says the probe selects
Selected(lst) ==
    LET c == lst.models
        r1 == {i \in CapableAt(c) : Rule1(c[i].name)}
        r2 == {i \in CapableAt(c) : Rule2(c[i].name)}
        r3 == {i \in CapableAt(c) : Rule3(c[i].name)}
    IN  IF ~lst.ok \/ CapableAt(c) = {} THEN s_gemini15flash
        ELSE IF r1 # {} THEN StripPrefix(c[Least(r1)].name)
        ELSE IF r2 # {} THEN StripPrefix(c[Least(r2)].name)
        ELSE StripPrefix(c[Least(r3)].name)

FlashAndLatest ==
    LET a == Entry(n_flash, {"generateContent", "countTokens"})
        b == Entry(n_flash_latest, {"generateContent", "countTokens"})
    IN  {<<a, b>>, <<b, a>>}

\* C9: the name the probe stores is the first capable name with
\* "gemini-1.5-flash" and neither "latest" nor "exp"; else the first capable
\* name with "flash" and neither "gemini-2" nor "exp"; else the first capable
\* name; each without its "models/" prefix; and "gemini-1.5-flash" when the
\* probe fails or nothing is capable. The catalog of "models/gemini-1.5-flash"
\* and "models/gemini-1.5-flash-latest", in either order, gives
\* "gemini-1.5-flash".
C9_Resolution ==
    (pc = "ready" /\ probe_count = 1) =>
        /\ session_state.model_name = Selected(listing)
        /\ (listing.ok /\ listing.models \in FlashAndLatest) =>
                session_state.model_name = s_gemini15flash

C9_Witness ==
    /\ pc = "ready" /\ probe_count = 1 /\ listing.ok
    /\ listing.models = <<Entry(n_flash_latest, {"generateContent", "countTokens"}),
                          Entry(n_flash, {"embedContent"}),
                          Entry(n_flash, {"generateContent", "countTokens"})>>
    /\ session_state.model_name = s_gemini15flash

\* C10: the cursor stays within 0..N-1; a step changes it only by a successful
\* rotate_key(), and only to (cursor+1) mod N; every backend call is made with
\* the credential GEMINI_API_KEYS[cursor] of the cursor at the call.
C10_CursorAndBinding ==
    /\ [](/\ Has(session_state, "key_index") => KeyIndex \in 0..(poolSize - 1)
          /\ pc # "idle" => Has(session_state, "key_index")
          /\ \A i \in 1..Len(Calls) :
                Calls[i].key = GEMINI_API_KEYS(poolSize)[Calls[i].index])
    /\ [][(Has(session_state, "key_index")
             /\ session_state'.key_index # session_state.key_index) =>
            /\ session_state'.key_index = (session_state.key_index + 1) % poolSize
            /\ last_rotate'.called /\ last_rotate'.ok
            /\ last_rotate'.index_before = session_state.key_index
            /\ last_rotate'.index_after = session_state'.key_index]_vars
    /\ [][~Has(session_state, "key_index") => session_state'.key_index = 0]_vars

C10_Witness ==
    /\ poolSize = 3 /\ Finished /\ Len(Calls) = 4 /\ start_index = 2
    /\ Calls[1].index = 2 /\ Calls[2].index = 0 /\ Calls[3].index = 0
    /\ Calls[4].index = 1 /\ end_index = 1 /\ result.kind = "response"

====
